---------------------------- MODULE Spec2Model ----------------------------
(***************************************************************************)
(* EMOS E6016 weather station decoder (src/devices/emos_e6016.c).          *)
(*                                                                         *)
(* The state is one bitbuffer (rows of bits addressed as bytes), the       *)
(* position of emos_e6016_decode inside its body, its locals, its return   *)
(* value, the messages it logged and the data it handed to the output      *)
(* sink.  Bytes are naturals 0..255; C's 0-based b[i] is B(row, i).        *)
(* Floating point outputs are kept in fixed point: temp_c and dir_deg in   *)
(* tenths (temp_c = tenths * 0.1f, dir_deg = dir_raw * 22.5f).  An int is   *)
(* a mathematical integer here: every value the decoder computes stays     *)
(* within 32 bits (DatetimeBounds states it for the widest one).           *)
(***************************************************************************)
EXTENDS Integers, Sequences, FiniteSets, TLC

VARIABLES bb, entry, sent, pc, r, ret, log, loc, sink, inverts, calls, history

vars == <<bb, entry, sent, pc, r, ret, log, loc, sink, inverts, calls, history>>

(***************************************************************************)
(* Bounds of the model.                                                    *)
(***************************************************************************)
\* most rows in a generated bitbuffer
MaxRows == 4
\* most invocations of the decoder on one bitbuffer
MaxCalls == 2

(***************************************************************************)
(* Program constants.                                                      *)
(***************************************************************************)
\* bitbuffer_find_repeated_row(bitbuffer, 3, ...)
MIN_REPEATS == 3
\* "we expect 120 bits"
ROW_BITS == 120
\* the repeat byte, ignored by the row search: 120 - 8
REPEAT_BITS == 8
\* add_bytes(b, 13), compared with b[13]
CHECKSUM_LEN == 13
\* model check 55 5a 7c
MODEL_BYTES == <<\h55, \h5a, \h7c>>

DECODE_ABORT_EARLY == "DECODE_ABORT_EARLY"
DECODE_ABORT_LENGTH == "DECODE_ABORT_LENGTH"
DECODE_FAIL_MIC == "DECODE_FAIL_MIC"
\* return 1
DECODE_OK == "1"
\* no return yet: the invocation is still running
NoRet == "running"

(***************************************************************************)
(* C integer arithmetic.                                                   *)
(***************************************************************************)
Pow2(n) == 2 ^ n

\* & and | on ints in two's complement (-1 is all ones)
RECURSIVE BitAnd(_, _)
BitAnd(x, y) ==
    IF x = 0 \/ y = 0 THEN 0
    ELSE IF x = -1 THEN y
    ELSE IF y = -1 THEN x
    ELSE (IF x % 2 = 1 /\ y % 2 = 1 THEN 1 ELSE 0) + 2 * BitAnd(x \div 2, y \div 2)

RECURSIVE BitOr(_, _)
BitOr(x, y) ==
    IF x = 0 THEN y
    ELSE IF y = 0 THEN x
    ELSE IF x = -1 \/ y = -1 THEN -1
    ELSE (IF x % 2 = 1 \/ y % 2 = 1 THEN 1 ELSE 0) + 2 * BitOr(x \div 2, y \div 2)

Shl(x, n) == x * Pow2(n)

\* >> on an int: arithmetic (sign-propagating) for a negative operand
Shr(x, n) == x \div Pow2(n)

\* ~ on a uint8_t
Not8(x) == 255 - x

\* (int16_t)x: reduction modulo 2^16 into -32768..32767
ToInt16(x) ==
    LET m == x % 65536 IN IF m >= 32768 THEN m - 65536 ELSE m

(***************************************************************************)
(* The bitbuffer: a sequence of rows [bits, b], b holding the row's        *)
(* (bits + 7) / 8 bytes.                                                   *)
(***************************************************************************)
BytesOf(bits) == (bits + 7) \div 8

\* b[i] of a row, i counted from 0 as in C
B(row, i) == row.b[i + 1]

\* bitbuffer_compare_rows over the first max_bits bits
bitbuffer_compare_rows(bits, a, c, max_bits) ==
    /\ bits[a].bits >= max_bits
    /\ bits[c].bits >= max_bits
    /\ \A k \in 1..BytesOf(max_bits) : bits[a].b[k] = bits[c].b[k]

\* the occurrences of row a among all rows
RepeatCount(bits, a, min_bits) ==
    Cardinality({c \in 1..Len(bits) : bitbuffer_compare_rows(bits, a, c, min_bits)})

\* first row with at least min_repeats occurrences, 0-based, or -1
bitbuffer_find_repeated_row(bits, min_repeats, min_bits) ==
    LET found == {a \in 1..Len(bits) :
                     /\ bits[a].bits >= min_bits
                     /\ RepeatCount(bits, a, min_bits) >= min_repeats}
    IN  IF found = {} THEN -1
        ELSE (CHOOSE a \in found : \A c \in found : a <= c) - 1

\* one row with every captured bit inverted; unused bits of the last byte stay
InvertRow(row) ==
    IF row.bits = 0 THEN row
    ELSE LET last_col  == (row.bits - 1) \div 8
             last_bits == ((row.bits - 1) % 8) + 1
             unused    == Pow2(8 - last_bits) - 1
         IN  [row EXCEPT !.b =
                 [k \in 1..Len(row.b) |->
                     IF k - 1 < last_col THEN Not8(row.b[k])
                     ELSE IF k - 1 = last_col
                          THEN Not8(row.b[k]) - unused + BitAnd(row.b[k], unused)
                          ELSE row.b[k]]]

\* bitbuffer_invert(bitbuffer): the whole buffer, every row
bitbuffer_invert(bits) == [k \in 1..Len(bits) |-> InvertRow(bits[k])]

\* add_bytes(b, n): the plain sum of b[0..n-1]
RECURSIVE add_bytes(_, _)
add_bytes(row, n) == IF n = 0 THEN 0 ELSE add_bytes(row, n - 1) + B(row, n - 1)

(***************************************************************************)
(* Field extraction, one operator per local of emos_e6016_decode; b is the *)
(* selected row after inversion.                                           *)
(***************************************************************************)
id(b) == B(b, 3)

battery(b) == Shr(BitAnd(B(b, 4), \hf0), 4)

dcf77_raw(b) ==
    BitOr(BitOr(BitOr(BitOr(Shl(BitAnd(B(b, 4), \h0f), 26),
                            Shl(B(b, 5), 18)),
                      Shl(B(b, 6), 10)),
                Shl(B(b, 7), 2)),
          Shr(B(b, 8), 6))

dcf77_sec(raw) == BitAnd(Shr(raw, 0), \h3f)

dcf77_min(raw) == BitAnd(Shr(raw, 6), \h3f)

\* faulty variant: the hours masked like the minutes
dcf77_hour_mask6(raw) == BitAnd(Shr(raw, 12), \h3f)

dcf77_hour(raw) == BitAnd(Shr(raw, 12), \h1f)

dcf77_days(raw) == Shr(raw, 17)

\* faulty variant: the channel left 0-based
channel_zero_based(b) == BitAnd(Shr(B(b, 8), 4), \h3)

channel(b) == BitAnd(Shr(B(b, 8), 4), \h3) + 1

\* faulty variant: the 16-bit pattern without the int16_t cast
temp_raw_nocast(b) == BitOr(Shl(BitAnd(B(b, 8), \h0f), 12), Shl(B(b, 9), 4))

\* (int16_t)(((b[8] & 0x0f) << 12) | (b[9] << 4))
temp_raw(b) == ToInt16(BitOr(Shl(BitAnd(B(b, 8), \h0f), 12), Shl(B(b, 9), 4)))

\* (temp_raw >> 4) * 0.1f, kept in tenths of a degree
temp_c(b) == Shr(temp_raw(b), 4)

\* faulty variant: the humidity read one byte late
humidity_next_byte(b) == B(b, 11)

humidity(b) == B(b, 10)

speed_ms(b) == B(b, 11)

dir_raw(b) == Shr(BitAnd(B(b, 12), \hf0), 4)

\* dir_raw * 22.5f, kept in tenths of a degree
dir_deg(b) == dir_raw(b) * 225

\* printf's %d: the decimal digits, a leading '-' for a negative number
Digit(d) == <<"0", "1", "2", "3", "4", "5", "6", "7", "8", "9">>[d + 1]

RECURSIVE DecimalNat(_)
DecimalNat(n) == IF n < 10 THEN <<Digit(n)>> ELSE Append(DecimalNat(n \div 10), Digit(n % 10))

Decimal(n) == IF n < 0 THEN <<"-">> \o DecimalNat(-n) ELSE DecimalNat(n)

\* sprintf(dcf77_str, "%dT%d:%d:%d", days, hour, min, sec), without the terminator
dcf77_str(raw) ==
    Decimal(dcf77_days(raw)) \o <<"T">> \o Decimal(dcf77_hour(raw)) \o <<":">>
        \o Decimal(dcf77_min(raw)) \o <<":">> \o Decimal(dcf77_sec(raw))

\* char dcf77_str[14]
DCF77_STR_SIZE == 14

\* the locals of the decoder after field extraction
Locals(b) ==
    [id         |-> id(b),
     battery    |-> battery(b),
     dcf77_raw  |-> dcf77_raw(b),
     dcf77_sec  |-> dcf77_sec(dcf77_raw(b)),
     dcf77_min  |-> dcf77_min(dcf77_raw(b)),
     dcf77_hour |-> dcf77_hour(dcf77_raw(b)),
     dcf77_days |-> dcf77_days(dcf77_raw(b)),
     channel    |-> channel(b),
     temp_raw   |-> temp_raw(b),
     temp_c     |-> temp_c(b),
     humidity   |-> humidity(b),
     speed_ms   |-> speed_ms(b),
     dir_raw    |-> dir_raw(b),
     dir_deg    |-> dir_deg(b),
     dcf77_str  |-> dcf77_str(dcf77_raw(b))]

\* data_make(...): the record handed to the output sink
data_make(l) ==
    [model          |-> "EMOS-E6016",
     id             |-> l.id,
     channel        |-> l.channel,
     battery_ok     |-> IF l.battery # 0 THEN 1 ELSE 0,
     temperature_C  |-> l.temp_c,
     humidity       |-> l.humidity,
     wind_avg_m_s   |-> l.speed_ms,
     wind_dir_deg   |-> l.dir_deg,
     datetime_raw   |-> l.dcf77_raw,
     datetime_maybe |-> l.dcf77_str,
     mic            |-> "CHECKSUM"]

(***************************************************************************)
(* The transmitter and the receiver front end: the bitbuffers the decoder  *)
(* is called with.                                                         *)
(***************************************************************************)
\* the 12-bit two's-complement pattern of a temperature in tenths
Temp12(t) == t % 4096

\* the sum of a byte sequence
RECURSIVE SumSeq(_)
SumSeq(q) == IF q = <<>> THEN 0 ELSE q[1] + SumSeq(Tail(q))

\* the 14 bytes of a frame, in the domain the fields are defined in:
\* PP PP PP II BK KK KK KK CT TT HH SS D? XX
PackFrame(f) ==
    LET body == << \haa, \ha5, \h83,
                   f.id,
                   f.battery * 16 + (f.dcf \div Pow2(26)),
                   (f.dcf \div Pow2(18)) % 256,
                   (f.dcf \div Pow2(10)) % 256,
                   (f.dcf \div Pow2(2)) % 256,
                   (f.dcf % 4) * 64 + (f.channel - 1) * 16 + (Temp12(f.temp) \div 256),
                   Temp12(f.temp) % 256,
                   f.humidity,
                   f.speed,
                   f.dir * 16 + f.unk >>
    IN  Append(body, SumSeq(body) % 256)

\* the bytes on the wire: inverted logic levels
Wire(frame) == [k \in 1..Len(frame) |-> Not8(frame[k])]

\* Raw data [00]: 55 5a 7c 00 6a a5 60 e7 3f 36 da ff 5d 38
ScenarioWire ==
    << \h55, \h5a, \h7c, \h00, \h6a, \ha5, \h60, \he7, \h3f, \h36, \hda, \hff, \h5d, \h38 >>

\* Raw data [00]..[05]: six rows, the repeat byte counting down from ff
ScenarioRows == [i \in 1..6 |-> [bits |-> ROW_BITS, b |-> Append(ScenarioWire, 256 - i)]]

\* the same frame received with a wrong checksum byte, and with a wrong model byte
BadSumWire == [ScenarioWire EXCEPT ![14] = \h39]

\* (the checksum byte follows the model byte, so only the model check can reject it)
BadModelWire == [ScenarioWire EXCEPT ![3] = \h7d, ![14] = \h39]

\* how the front end may deliver the i-th copy of a frame
RowKinds == {"ok", "short", "long", "glitch", "runt"}

\* byte x with bit n flipped
FlipBit(x, n) == IF (x \div Pow2(n)) % 2 = 1 THEN x - Pow2(n) ELSE x + Pow2(n)

CapturedRow(wire, kind, i) ==
    LET rc == 256 - i IN
    CASE kind = "ok"     -> [bits |-> ROW_BITS, b |-> Append(wire, rc)]
      [] kind = "short"  -> [bits |-> ROW_BITS - 1, b |-> Append(wire, 2 * (rc \div 2))]
      [] kind = "long"   -> [bits |-> ROW_BITS + 1, b |-> wire \o <<rc, 128>>]
      [] kind = "glitch" -> [bits |-> ROW_BITS,
                             b |-> Append([wire EXCEPT ![7] = FlipBit(wire[7], i % 8)], rc)]
      [] kind = "runt"   -> [bits |-> ROW_BITS - 16, b |-> SubSeq(wire, 1, 13)]

Shapes == UNION {[1..n -> RowKinds] : n \in 0..MaxRows}

Capture(wire, shape) == [i \in 1..Len(shape) |-> CapturedRow(wire, shape[i], i)]

\* field values a station may send; bytes 4..9 share bits between fields
PackedFields ==
    {[id |-> 255, battery |-> bat, dcf |-> dcf, channel |-> ch, temp |-> t,
      humidity |-> 37, speed |-> 0, dir |-> 10, unk |-> 2] :
        bat \in {0, 9}, dcf \in {0, 359300195, 715827882, Pow2(30) - 1},
        ch \in 1..4, t \in {-2048, -125, -1, 0, 201, 2047}}

PlainFields ==
    {[id |-> i, battery |-> 9, dcf |-> 359300195, channel |-> 1, temp |-> 201,
      humidity |-> h, speed |-> s, dir |-> d, unk |-> u] :
        i \in {0, 171, 255}, h \in {0, 55, 255}, s \in {0, 218, 255},
        d \in {0, 10, 15}, u \in {0, 15}}

Fields == PackedFields \cup PlainFields

\* three 120-bit copies differing only in the repeat byte
Transmit(f) == Capture(Wire(PackFrame(f)), <<"ok", "ok", "ok">>)

Inputs ==
    {[tx |-> Transmit(f), sent |-> <<f>>] : f \in Fields}
    \cup {[tx |-> Capture(w, sh), sent |-> <<>>] :
             w \in {ScenarioWire, BadSumWire, BadModelWire}, sh \in Shapes}
    \cup {[tx |-> ScenarioRows, sent |-> <<>>]}

(***************************************************************************)
(* emos_e6016_decode, one action per stage of its body.                    *)
(***************************************************************************)
\* uint8_t *b = bitbuffer->bb[r]: the selected row as it is now
Row == bb[r + 1]

Init ==
    \E inp \in Inputs :
        /\ bb = inp.tx
        /\ entry = inp.tx
        /\ sent = inp.sent
        /\ pc = "find"
        /\ r = -1
        /\ ret = NoRet
        /\ log = <<>>
        /\ loc = <<>>
        /\ sink = <<>>
        /\ inverts = 0
        /\ calls = 1
        /\ history = <<>>

\* return code after decoder_log(msg)
Fail(msg, code) ==
    /\ log' = Append(log, msg)
    /\ ret' = code
    /\ pc' = "done"

FindRow ==
    /\ pc = "find"
    /\ r' = bitbuffer_find_repeated_row(bb, MIN_REPEATS, ROW_BITS - REPEAT_BITS)
    /\ IF r' < 0
       THEN Fail("Repeated row fail", DECODE_ABORT_EARLY)
       ELSE /\ log' = Append(log, "Found row")
            /\ pc' = "length"
            /\ ret' = ret
    /\ UNCHANGED <<bb, entry, sent, loc, sink, inverts, calls, history>>

\* faulty variant: only a row shorter than 120 bits is rejected
CheckLengthTooShortOnly ==
    /\ pc = "length"
    /\ IF Row.bits < ROW_BITS
       THEN Fail("Length check fail", DECODE_ABORT_LENGTH)
       ELSE /\ pc' = "model"
            /\ UNCHANGED <<log, ret>>
    /\ UNCHANGED <<bb, entry, sent, r, loc, sink, inverts, calls, history>>

CheckLength ==
    /\ pc = "length"
    /\ IF Row.bits # ROW_BITS
       THEN Fail("Length check fail", DECODE_ABORT_LENGTH)
       ELSE /\ pc' = "model"
            /\ UNCHANGED <<log, ret>>
    /\ UNCHANGED <<bb, entry, sent, r, loc, sink, inverts, calls, history>>

\* faulty variant: the model bytes joined by && instead of ||
CheckModelAllDiffer ==
    /\ pc = "model"
    /\ IF B(Row, 0) # MODEL_BYTES[1] /\ B(Row, 1) # MODEL_BYTES[2] /\ B(Row, 2) # MODEL_BYTES[3]
       THEN Fail("Model check fail", DECODE_ABORT_EARLY)
       ELSE /\ pc' = "invert"
            /\ UNCHANGED <<log, ret>>
    /\ UNCHANGED <<bb, entry, sent, r, loc, sink, inverts, calls, history>>

\* faulty variant: the model failure is logged but the return is missing
CheckModelNoReturn ==
    /\ pc = "model"
    /\ IF B(Row, 0) # MODEL_BYTES[1] \/ B(Row, 1) # MODEL_BYTES[2] \/ B(Row, 2) # MODEL_BYTES[3]
       THEN log' = Append(log, "Model check fail")
       ELSE log' = log
    /\ pc' = "invert"
    /\ UNCHANGED <<bb, entry, sent, r, ret, loc, sink, inverts, calls, history>>

CheckModel ==
    /\ pc = "model"
    /\ IF B(Row, 0) # MODEL_BYTES[1] \/ B(Row, 1) # MODEL_BYTES[2] \/ B(Row, 2) # MODEL_BYTES[3]
       THEN Fail("Model check fail", DECODE_ABORT_EARLY)
       ELSE /\ pc' = "invert"
            /\ UNCHANGED <<log, ret>>
    /\ UNCHANGED <<bb, entry, sent, r, loc, sink, inverts, calls, history>>

Invert ==
    /\ pc = "invert"
    /\ bb' = bitbuffer_invert(bb)
    /\ inverts' = inverts + 1
    /\ pc' = "checksum"
    /\ UNCHANGED <<entry, sent, r, ret, log, loc, sink, calls, history>>

\* faulty variant: the sum compared without & 0xff
ChecksumFailsNoMask(b) == add_bytes(b, CHECKSUM_LEN) # B(b, CHECKSUM_LEN)

\* (add_bytes(b, 13) & 0xff) != b[13]
ChecksumFails(b) == BitAnd(add_bytes(b, CHECKSUM_LEN), \hff) # B(b, CHECKSUM_LEN)

CheckChecksum ==
    /\ pc = "checksum"
    /\ IF ChecksumFails(Row)
       THEN Fail("Checksum fail", DECODE_FAIL_MIC)
       ELSE /\ pc' = "extract"
            /\ UNCHANGED <<log, ret>>
    /\ UNCHANGED <<bb, entry, sent, r, loc, sink, inverts, calls, history>>

Extract ==
    /\ pc = "extract"
    /\ loc' = <<Locals(Row)>>
    /\ pc' = "output"
    /\ UNCHANGED <<bb, entry, sent, r, ret, log, sink, inverts, calls, history>>

\* data_make, decoder_output_data, return 1
Output ==
    /\ pc = "output"
    /\ sink' = Append(sink, data_make(loc[1]))
    /\ ret' = DECODE_OK
    /\ pc' = "done"
    /\ UNCHANGED <<bb, entry, sent, r, log, loc, inverts, calls, history>>

\* the host calls decode_fn again on the same bitbuffer
Redecode ==
    /\ pc = "done"
    /\ calls < MaxCalls
    /\ history' = Append(history, [ret |-> ret, sink |-> sink, log |-> log])
    /\ calls' = calls + 1
    /\ entry' = bb
    /\ pc' = "find"
    /\ r' = -1
    /\ ret' = NoRet
    /\ log' = <<>>
    /\ loc' = <<>>
    /\ sink' = <<>>
    /\ inverts' = 0
    /\ UNCHANGED <<bb, sent>>

Next ==
    \/ FindRow
    \/ CheckLength
    \/ CheckModel
    \/ Invert
    \/ CheckChecksum
    \/ Extract
    \/ Output
    \/ Redecode

Spec == Init /\ [][Next]_vars

(***************************************************************************)
(* emos_e6016_decode as one function of the bitbuffer it is called with:   *)
(* its return code and what it hands to the sink.                          *)
(***************************************************************************)
DecodeOutcome(bits) ==
    LET r0 == bitbuffer_find_repeated_row(bits, MIN_REPEATS, ROW_BITS - REPEAT_BITS) IN
    IF r0 < 0 THEN [ret |-> DECODE_ABORT_EARLY, sink |-> <<>>]
    ELSE IF bits[r0 + 1].bits # ROW_BITS THEN [ret |-> DECODE_ABORT_LENGTH, sink |-> <<>>]
    ELSE IF SubSeq(bits[r0 + 1].b, 1, 3) # MODEL_BYTES
         THEN [ret |-> DECODE_ABORT_EARLY, sink |-> <<>>]
    ELSE LET b == bitbuffer_invert(bits)[r0 + 1] IN
         IF ChecksumFails(b) THEN [ret |-> DECODE_FAIL_MIC, sink |-> <<>>]
         ELSE [ret |-> DECODE_OK, sink |-> <<data_make(Locals(b))>>]

(***************************************************************************)
(* Properties.  They are stated over entry, the bitbuffer as it was when   *)
(* the running invocation was called.                                      *)
(***************************************************************************)
\* rows i and j agree outside the repeat byte
Agree14(e, i, j) ==
    /\ e[i].bits >= 112
    /\ e[j].bits >= 112
    /\ SubSeq(e[i].b, 1, 14) = SubSeq(e[j].b, 1, 14)

\* row i is one of at least three agreeing rows
HasQuorum(e, i) ==
    \E j, k \in 1..Len(e) : i # j /\ i # k /\ j # k /\ Agree14(e, i, j) /\ Agree14(e, i, k)

NoQuorum(e) == \A i \in 1..Len(e) : ~HasQuorum(e, i)

\* the selected row as the invocation found it
EntryRow == entry[r + 1]

LengthOk == EntryRow.bits = 120

ModelOk == SubSeq(EntryRow.b, 1, 3) = <<85, 90, 124>>

\* the checksum over the inverted bytes 0..12 against inverted byte 13
SumOk == SumSeq([k \in 1..13 |-> 255 - EntryRow.b[k]]) % 256 = 255 - EntryRow.b[14]

FailureCodes == {DECODE_ABORT_EARLY, DECODE_ABORT_LENGTH, DECODE_FAIL_MIC}

\* C1: the sink is invoked at most once per invocation and only after the row
\* search, the length check, the model check and the checksum all passed; the
\* invocation returns 1 exactly when the sink was invoked, and every failure
\* returns a failure code with nothing emitted.
C1_OutputOnlyWhenAllChecksPass ==
    /\ Len(sink) <= 1
    /\ (sink # <<>> => r >= 0 /\ HasQuorum(entry, r + 1) /\ LengthOk /\ ModelOk /\ SumOk)
    /\ (pc # "done" => ret = NoRet)
    /\ (pc = "done" => (ret = DECODE_OK <=> Len(sink) = 1))
    /\ (pc = "done" /\ (NoQuorum(entry) \/ (r >= 0 /\ ~(LengthOk /\ ModelOk /\ SumOk)))
            => ret \in FailureCodes /\ sink = <<>>)

C1_Witness ==
    /\ pc = "done" /\ ret = DECODE_OK /\ Len(sink) = 1
    /\ HasQuorum(entry, r + 1) /\ LengthOk /\ ModelOk /\ SumOk

\* C2 as claimed: the six rows of the raw-data example decode to id 0,
\* channel 1, battery_ok false, humidity 55 and wind speed 218.
C2_ScenarioAsClaimed ==
    (entry = ScenarioRows /\ pc = "done") =>
        /\ ret = DECODE_OK /\ Len(sink) = 1
        /\ sink[1].id = 0
        /\ sink[1].channel = 1
        /\ sink[1].battery_ok = 0
        /\ sink[1].humidity = 55
        /\ sink[1].wind_avg_m_s = 218

\* C2 amended: the six rows of the raw-data example decode, after inversion,
\* to id 255, channel 1, battery_ok true, humidity 37 and wind speed 0, the
\* inverted checksum byte c7 matching the sum of the 13 inverted bytes.
C2_ScenarioDecodes ==
    (entry = ScenarioRows /\ pc = "done") =>
        /\ ret = DECODE_OK /\ Len(sink) = 1
        /\ sink[1].id = 255
        /\ sink[1].channel = 1
        /\ sink[1].battery_ok = 1
        /\ sink[1].humidity = 37
        /\ sink[1].wind_avg_m_s = 0
        /\ SumOk /\ B(Row, 13) = 199

C2_Witness == entry = ScenarioRows /\ pc = "done" /\ ret = DECODE_OK /\ r = 0

\* C3: the buffer is inverted at most once per invocation, only after the
\* length and model checks passed on the bytes as captured, and before the
\* checksum is computed or a field is read; an invocation that fails the row
\* search, the length check or the model check leaves every bit as it was.
C3_InvertOnceAfterValidation ==
    /\ inverts <= 1
    /\ (pc \in {"find", "length", "model", "invert"} => inverts = 0 /\ bb = entry)
    /\ (inverts = 1 => r >= 0 /\ LengthOk /\ ModelOk /\ Row = InvertRow(EntryRow))
    /\ (pc \in {"checksum", "extract", "output"} \/ loc # <<>> \/ sink # <<>> => inverts = 1)
    /\ (pc = "done" /\ ret \in {DECODE_FAIL_MIC, DECODE_OK} => inverts = 1)
    /\ (pc = "done" /\ ret \in {DECODE_ABORT_EARLY, DECODE_ABORT_LENGTH}
            => inverts = 0 /\ bb = entry)

C3_Witness ==
    /\ pc = "done" /\ ret = DECODE_ABORT_EARLY /\ r >= 0
    /\ LengthOk /\ ~ModelOk /\ inverts = 0 /\ bb = entry

\* every row with its repeat byte (byte 14) cleared
WithoutRepeatByte(e) ==
    [k \in 1..Len(e) |-> IF Len(e[k].b) >= 15 THEN [e[k] EXCEPT !.b[15] = 0] ELSE e[k]]

\* C4: a frame that passed the length and model checks reaches field
\* extraction exactly when the inverted bytes 0..12 sum, modulo 256, to
\* inverted byte 13; otherwise the invocation returns DECODE_FAIL_MIC with
\* nothing emitted.  The repeat byte never influences the outcome.
C4_ChecksumDecides ==
    /\ (r >= 0 /\ pc \in {"extract", "output"} => SumOk)
    /\ (pc = "done" /\ r >= 0 /\ LengthOk /\ ModelOk =>
            /\ (ret = DECODE_OK <=> SumOk)
            /\ (loc # <<>> <=> SumOk)
            /\ (~SumOk => ret = DECODE_FAIL_MIC /\ sink = <<>>))
    /\ (pc = "done" =>
            [ret |-> ret, sink |-> sink] = DecodeOutcome(WithoutRepeatByte(entry)))

C4_Witness ==
    /\ pc = "done" /\ r >= 0 /\ LengthOk /\ ModelOk /\ ~SumOk
    /\ ret = DECODE_FAIL_MIC /\ sink = <<>>
    /\ entry # WithoutRepeatByte(entry)

\* C5: three 120-bit copies of a packed, checksummed and inverted frame,
\* differing only in the repeat byte, decode to exactly the fields packed.
C5_RoundTrip ==
    (pc = "done" /\ calls = 1 /\ sent # <<>>) =>
        /\ ret = DECODE_OK /\ Len(sink) = 1
        /\ sink[1].id = sent[1].id
        /\ sink[1].battery_ok = (IF sent[1].battery # 0 THEN 1 ELSE 0)
        /\ sink[1].datetime_raw = sent[1].dcf
        /\ sink[1].channel = sent[1].channel
        /\ sink[1].temperature_C = sent[1].temp
        /\ sink[1].humidity = sent[1].humidity
        /\ sink[1].wind_avg_m_s = sent[1].speed
        /\ sink[1].wind_dir_deg = sent[1].dir * 225

C5_Witness ==
    /\ pc = "done" /\ calls = 1 /\ sent # <<>> /\ ret = DECODE_OK
    /\ sent[1].channel = 4 /\ sent[1].temp < 0 /\ sent[1].battery = 0
    /\ Len(entry) = 3

\* the 12-bit temperature field of the inverted frame
TempField == (B(Row, 8) % 16) * 256 + B(Row, 9)

\* C6: the decoded temperature in tenths is the two's-complement value of the
\* 12-bit field (low nibble of byte 8, then byte 9): v below 2048, v - 4096
\* from 2048 on; the pattern f83 gives -125, and the value is in -2048..2047.
C6_TemperatureSignExtension ==
    loc # <<>> =>
        /\ loc[1].temp_c = (IF TempField < 2048 THEN TempField ELSE TempField - 4096)
        /\ loc[1].temp_c \in -2048..2047
        /\ (TempField = 3971 => loc[1].temp_c = -125)
        /\ (sink # <<>> => sink[1].temperature_C = loc[1].temp_c)

C6_Witness == loc # <<>> /\ TempField = 3971 /\ sink # <<>> /\ sink[1].temperature_C = -125

\* C7 as claimed: a second invocation on the same bitbuffer has the outcome of
\* the first, with an identical reading.
C7_Idempotent ==
    (pc = "done" /\ calls = 2) => ret = history[1].ret /\ sink = history[1].sink

\* C8: a selected row whose length is not 120 bits ends the invocation with
\* DECODE_ABORT_LENGTH before the model check, the inversion, the checksum or
\* field extraction.
C8_LengthBoundary ==
    /\ (r >= 0 /\ pc \in {"model", "invert", "checksum", "extract", "output"} => LengthOk)
    /\ (pc = "done" /\ r >= 0 /\ ~LengthOk =>
            /\ ret = DECODE_ABORT_LENGTH
            /\ log = <<"Found row", "Length check fail">>
            /\ inverts = 0 /\ bb = entry
            /\ loc = <<>> /\ sink = <<>>)

C8_Witness ==
    /\ pc = "done" /\ r >= 0 /\ EntryRow.bits = 121 /\ ret = DECODE_ABORT_LENGTH
    /\ \E k \in 1..Len(entry) : entry[k].bits = 120 /\ HasQuorum(entry, k)

\* C9 as claimed: when an invocation returns, every row other than the
\* selected one holds the bits it held at the call, and the selected row is as
\* it was or inverted once.
C9_OtherRowsUntouched ==
    pc = "done" =>
        \A k \in 1..Len(bb) :
            IF k = r + 1 THEN bb[k] \in {entry[k], InvertRow(entry[k])}
            ELSE bb[k] = entry[k]

\* the 30-bit datetime field of the inverted frame
DatetimeField ==
    (B(Row, 4) % 16) * 67108864 + B(Row, 5) * 262144 + B(Row, 6) * 1024
        + B(Row, 7) * 4 + (B(Row, 8) \div 64)

\* C10: the raw datetime is the 30-bit field, within 0..2^30-1; seconds,
\* minutes, hours and days are its 6, 6, 5 and remaining bits, at most 63, 63,
\* 31 and 8191; the formatted string has at most 13 characters and fits the
\* 14-byte buffer with its terminator.
C10_DatetimeBounds ==
    loc # <<>> =>
        LET l == loc[1] IN
        /\ l.dcf77_raw = DatetimeField
        /\ l.dcf77_raw \in 0..1073741823
        /\ l.dcf77_sec = l.dcf77_raw % 64 /\ l.dcf77_sec <= 63
        /\ l.dcf77_min = (l.dcf77_raw \div 64) % 64 /\ l.dcf77_min <= 63
        /\ l.dcf77_hour = (l.dcf77_raw \div 4096) % 32 /\ l.dcf77_hour <= 31
        /\ l.dcf77_days = l.dcf77_raw \div 131072 /\ l.dcf77_days <= 8191
        /\ Len(l.dcf77_str) <= 13
        /\ Len(l.dcf77_str) + 1 <= DCF77_STR_SIZE

C10_Witness ==
    /\ loc # <<>> /\ loc[1].dcf77_raw = 1073741823
    /\ loc[1].dcf77_str = <<"8", "1", "9", "1", "T", "3", "1", ":", "6", "3", ":", "6", "3">>

=============================================================================
